---- MODULE Spec2Model ----
(***************************************************************************)
(* Model of mongollect (src/mongollect/core.py): the CRUDMixin capability  *)
(* set and the CollectionInjector decorators collection() and              *)
(* multiple_collections().                                                 *)
(*                                                                         *)
(* Python values are encoded as tuples of strings:                         *)
(*   <<"absent">>            the attribute does not exist                  *)
(*   <<"None">>              Python None                                   *)
(*   <<"handle", h>>         a database handle                             *)
(*   <<"coll", h, n>>        the collection h[n] of handle h               *)
(*   <<"sub", h, n, m>>      the object h[n][m] (a collection subscripted) *)
(*   <<"user">>              a value written by user code                  *)
(* The outcome of a call is <<"ok", v>> or <<"raise", type, message>>.     *)
(***************************************************************************)
EXTENDS Naturals, Sequences, FiniteSets, TLC

VARIABLES injector, decorator, wrapped, inst, cons, last

vars == <<injector, decorator, wrapped, inst, cons, last>>

----------------------------------------------------------------------------
(* Values *)

Absent == <<"absent">>

None == <<"None">>

UserVal == <<"user">>

Handle(h) == <<"handle", h>>

Coll(h, n) == <<"coll", h, n>>

SubColl(c, m) == <<"sub", c[2], c[3], m>>

Ok(v) == <<"ok", v>>

Raise(t, m) == <<"raise", t, m>>

IsRaise(r) == r[1] = "raise"

\* The error of the explicit presence check of every CRUDMixin operation.
NoCollectionError == Raise("AttributeError", "No collection found")

\* What Python raises when an attribute of None is looked up.
NoneTypeError == Raise("AttributeError", "NoneType has no attribute")

\* The error the decorators raise when the decoration-time lookup fails.
NotAccessibleError == Raise("KeyError", "Collection not accessible in database")

\* functools.update_wrapper applied to a class: the class __dict__ is a
\* mappingproxy, which has no update().
MappingProxyError == Raise("AttributeError", "mappingproxy has no attribute update")

----------------------------------------------------------------------------
(* The environment: database handles *)

\* The handle the CollectionInjector was constructed with (self.db).
InjectorDb == "H1"

\* Another handle, which user code may hold in an attribute named db.
OtherDb == "H2"

\* Collection names used by decorations.  "a" and "b" exist in H1, only "a"
\* in H2; the lookup of "missing" raises KeyError, of "attrerr"
\* AttributeError, of "bad" an error of another type (a driver error such
\* as InvalidName).
CNames == {"a", "b", "missing", "attrerr", "bad"}

\* db[name] on a database handle.
DbLookup(h, n) ==
    CASE n = "a" -> Ok(Coll(h, n))
      [] n = "b" /\ h = InjectorDb -> Ok(Coll(h, n))
      [] n = "attrerr" -> Raise("AttributeError", "handle")
      [] n = "bad" -> Raise("InvalidName", "handle")
      [] OTHER -> Raise("KeyError", "handle")

\* v[n] for an arbitrary value v.  Whether a collection object supports
\* subscripting depends on the driver (pymongo and MagicMock do, a plain
\* object does not): subscriptable is chosen by the environment.
Subscript(v, n, subscriptable) ==
    CASE v = Absent -> Raise("AttributeError", "object has no attribute db")
      [] v[1] = "handle" -> DbLookup(v[2], n)
      [] v[1] = "coll" /\ subscriptable -> Ok(SubColl(v, n))
      [] OTHER -> Raise("TypeError", "object is not subscriptable")

----------------------------------------------------------------------------
(* User types: the classes the decorators are applied to *)

\* The initializer does not write the attribute.
Skip == <<"skip">>

\* The fifteen operations of CRUDMixin.
CrudOps == {"create", "create_many", "find_by_id", "find_one", "find_many",
            "find_all", "update_by_id", "update_one", "update_many",
            "delete_by_id", "delete_one", "delete_many", "count_documents",
            "count", "exists"}

\* A user type: whether it is a class at all, its class attribute db, what
\* its __init__ writes to self.db and self.collection, and the CRUD
\* operations it defines itself (a create that validates and delegates).
UserType(id, isClass, classDb, initDb, initColl, ops) ==
    [id |-> id, isClass |-> isClass, classDb |-> classDb, initDb |-> initDb,
     initColl |-> initColl, ops |-> ops]

UserTypes ==
    { UserType("Plain", TRUE, Absent, Skip, Skip, {}),
      UserType("ClassDb", TRUE, Handle(InjectorDb), Skip, Skip, {}),
      UserType("OwnDb", TRUE, Absent, Handle(InjectorDb), UserVal, {"create"}),
      UserType("OtherDb", TRUE, Absent, Handle(OtherDb), Skip, {}),
      UserType("Func", FALSE, Absent, Skip, Skip, {}) }

\* The attribute names a name map may use, besides which an instance has
\* collection and db.
AttrNames == {"collection", "db", "primary", "secondary"}

\* The name maps (**collections) passed to multiple_collections, as
\* sequences of <<attribute name, collection name>> in declaration order.
NameMaps ==
    { << <<"primary", "a">>, <<"secondary", "b">> >>,
      << <<"secondary", "b">>, <<"primary", "a">> >>,
      << <<"primary", "a">>, <<"collection", "b">> >>,
      << <<"db", "a">>, <<"secondary", "b">> >>,
      << <<"primary", "missing">>, <<"secondary", "b">> >>,
      << <<"primary", "a">>, <<"secondary", "attrerr">> >>,
      << <<"primary", "a">>, <<"secondary", "bad">> >> }

----------------------------------------------------------------------------
(* Wrapped types: the classes the decorators return *)

\* class Wrapped(*base_classes) with its closed-over name(s), flag and cls.
WrappedType(kind, name, cmap, with_crud, cls) ==
    [kind |-> kind, name |-> name, cmap |-> cmap, with_crud |-> with_crud,
     cls |-> cls, sub |-> {}]

\* class Sub(t): an ordinary subclass of a wrapped type that redefines the
\* operations ops; the closure of Wrapped (name, flag, cls) is inherited.
SubclassOf(t, ops) == [t EXCEPT !.sub = ops]

NoUser == UserType("", FALSE, Absent, Skip, Skip, {})

NoType == WrappedType("none", "", <<>>, FALSE, NoUser)

\* Classes that use CRUDMixin without a decorator: CRUDMixin itself, and a
\* subclass whose __init__(collection=None) stores its argument.
MixinType == WrappedType("mixin", "", <<>>, TRUE, NoUser)

TestCRUDClass == WrappedType("testcrud", "", <<>>, TRUE, NoUser)

\* An except clause that names KeyError only.
CaughtKeyErrorOnly(errType) == errType = "KeyError"

\* The except clause of the decoration-time lookup.
CaughtByWrapper(errType) == errType \in {"KeyError", "AttributeError"}

\* try: _ = self.db[name]  except (KeyError, AttributeError): raise KeyError
ProbeCollection(name) ==
    LET r == DbLookup(injector[2], name)
    IN  IF IsRaise(r) /\ CaughtByWrapper(r[2]) THEN NotAccessibleError ELSE r

\* The validation loop of multiple_collections: the entries from k on are
\* probed in order and the first failure ends the loop.  The result is the
\* outcome and the names looked up.
RECURSIVE ValidateFrom(_, _)
ValidateFrom(cmap, k) ==
    IF k > Len(cmap) THEN [result |-> Ok("valid"), lookups |-> <<>>]
    ELSE LET r == ProbeCollection(cmap[k][2])
         IN  IF IsRaise(r) THEN [result |-> r, lookups |-> <<cmap[k][2]>>]
             ELSE LET rest == ValidateFrom(cmap, k + 1)
                  IN  [result |-> rest.result,
                       lookups |-> <<cmap[k][2]>> \o rest.lookups]

\* A validation that probes the first entry only.
ValidateFirstOnly(cmap) ==
    LET r == ProbeCollection(cmap[1][2])
    IN  [result |-> IF IsRaise(r) THEN r ELSE Ok("valid"), lookups |-> <<cmap[1][2]>>]

ValidateAll(cmap) == ValidateFrom(cmap, 1)

\* @wraps(cls) applied to the class Wrapped.
ApplyWraps(wrapsImpl) ==
    IF wrapsImpl = "functools" THEN MappingProxyError ELSE Ok("type")

\* A wrapper that leaves the lookup to construction time.
CollectionWrapperLazy(name, with_crud, cls, wrapsImpl) ==
    IF ~cls.isClass
    THEN [result |-> Raise("TypeError", "Decorator can only be applied to classes"),
          lookups |-> <<>>, type |-> NoType]
    ELSE IF IsRaise(ApplyWraps(wrapsImpl))
    THEN [result |-> ApplyWraps(wrapsImpl), lookups |-> <<>>, type |-> NoType]
    ELSE [result |-> Ok("type"), lookups |-> <<>>,
          type |-> WrappedType("single", name, <<>>, with_crud, cls)]

\* wrapper(cls) of collection(name, with_crud).
CollectionWrapper(name, with_crud, cls, wrapsImpl) ==
    IF ~cls.isClass
    THEN [result |-> Raise("TypeError", "Decorator can only be applied to classes"),
          lookups |-> <<>>, type |-> NoType]
    ELSE LET r == ProbeCollection(name)
         IN  IF IsRaise(r)
             THEN [result |-> r, lookups |-> <<name>>, type |-> NoType]
             ELSE IF IsRaise(ApplyWraps(wrapsImpl))
             THEN [result |-> ApplyWraps(wrapsImpl), lookups |-> <<name>>,
                   type |-> NoType]
             ELSE [result |-> Ok("type"), lookups |-> <<name>>,
                   type |-> WrappedType("single", name, <<>>, with_crud, cls)]

\* wrapper(cls) of multiple_collections(with_crud, **collections).
MultipleWrapper(cmap, with_crud, cls, wrapsImpl) ==
    IF ~cls.isClass
    THEN [result |-> Raise("TypeError", "Decorator can only be applied to classes"),
          lookups |-> <<>>, type |-> NoType]
    ELSE LET v == ValidateAll(cmap)
         IN  IF IsRaise(v.result)
             THEN [result |-> v.result, lookups |-> v.lookups, type |-> NoType]
             ELSE IF IsRaise(ApplyWraps(wrapsImpl))
             THEN [result |-> ApplyWraps(wrapsImpl), lookups |-> v.lookups,
                   type |-> NoType]
             ELSE [result |-> Ok("type"), lookups |-> v.lookups,
                   type |-> WrappedType("multi", "", cmap, with_crud, cls)]

----------------------------------------------------------------------------
(* Instances and construction *)

NoAttrs == [a \in AttrNames |-> Absent]

\* An object: its class and its instance attributes (__dict__).
Object(cls, attrs) == [cls |-> cls, attrs |-> attrs]

NoInst == Object(NoType, NoAttrs)

\* Attribute lookup: the instance attribute, else the class attribute.
GetAttr(obj, a) ==
    IF obj.attrs[a] # Absent THEN obj.attrs[a]
    ELSE IF a = "db" THEN obj.cls.cls.classDb
    ELSE Absent

SetAttr(obj, a, v) == Object(obj.cls, [obj.attrs EXCEPT ![a] = v])

\* cls.__init__(self) of the user type: the attributes its body writes.
RunUserInit(obj) ==
    LET u  == obj.cls.cls
        o1 == IF u.initDb = Skip THEN obj ELSE SetAttr(obj, "db", u.initDb)
    IN  IF u.initColl = Skip THEN o1 ELSE SetAttr(o1, "collection", u.initColl)

\* The steps of Wrapped.__init__: one initializer per entry of
\* base_classes, in order, then the injection.
InitSteps(with_crud) ==
    IF with_crud THEN <<"user_init", "mixin_init", "inject">>
    ELSE <<"user_init", "inject">>

\* An assignment that keeps a value already present.
AssignCollectionIfAbsent(obj, v) ==
    IF obj.attrs["collection"] # Absent THEN obj ELSE SetAttr(obj, "collection", v)

\* self.collection = <value>
AssignCollection(obj, v) == SetAttr(obj, "collection", v)

\* self.collection = self.db[name]
InjectSingle(obj, subscriptable) ==
    LET r == Subscript(GetAttr(obj, "db"), obj.cls.name, subscriptable)
    IN  IF IsRaise(r) THEN [result |-> r, obj |-> obj]
        ELSE [result |-> Ok("instance"), obj |-> AssignCollection(obj, r[2])]

\* for attr_name, collection_name in collections.items():
\*     setattr(self, attr_name, self.db[collection_name])
RECURSIVE InjectFrom(_, _, _)
InjectFrom(obj, k, subscriptable) ==
    IF k > Len(obj.cls.cmap) THEN [result |-> Ok("instance"), obj |-> obj]
    ELSE LET e == obj.cls.cmap[k]
             r == Subscript(GetAttr(obj, "db"), e[2], subscriptable)
         IN  IF IsRaise(r) THEN [result |-> r, obj |-> obj]
             ELSE InjectFrom(SetAttr(obj, e[1], r[2]), k + 1, subscriptable)

\* if with_crud and collections:
\*     self.collection = self.db[next(iter(collections.values()))]
PromoteFirst(obj, subscriptable) ==
    IF ~obj.cls.with_crud THEN [result |-> Ok("instance"), obj |-> obj]
    ELSE LET r == Subscript(GetAttr(obj, "db"), obj.cls.cmap[1][2], subscriptable)
         IN  IF IsRaise(r) THEN [result |-> r, obj |-> obj]
             ELSE [result |-> Ok("instance"), obj |-> AssignCollection(obj, r[2])]

InjectMultiple(obj, subscriptable) ==
    LET r == InjectFrom(obj, 1, subscriptable)
    IN  IF IsRaise(r.result) THEN r ELSE PromoteFirst(r.obj, subscriptable)

Inject(obj, subscriptable) ==
    IF obj.cls.kind = "single" THEN InjectSingle(obj, subscriptable)
    ELSE InjectMultiple(obj, subscriptable)

----------------------------------------------------------------------------
(* CRUDMixin *)

\* Argument values: None, the empty dict (which has no email field), and a
\* non-empty document or filter.
Args1 == {"None", "{}", "x"}

\* Update specifications.
Updates == {"u"}

\* The largest limit passed to find_many and find_all.
MaxLimit == 2

\* The largest number of documents of a collection that match a filter.
MaxDocs == 2

\* The limit argument of find_many and find_all: None or an integer.
Limits == {"None"} \cup {ToString(k) : k \in 0..MaxLimit}

\* The integer a limit argument denotes.
LimitValue(limit) == CHOOSE k \in 0..MaxLimit : ToString(k) = limit

\* What the driver does with a call: it raises, or it answers, the
\* collection holding n documents that match the filter of the call.
DriverOutcomes == {<<"raise", 0>>} \cup {<<"ret", n>> : n \in 0..MaxDocs}

\* The driver outcomes that tell a call of a method apart: the number of
\* matching documents shows in the answers of find and count_documents only.
OutcomesOf(method) ==
    IF method \in {"find", "count_documents"} THEN DriverOutcomes
    ELSE {<<"raise", 0>>, <<"ret", 0>>}

\* The collection method an operation of CRUDMixin calls.
MethodOf(op) ==
    CASE op = "create" -> "insert_one"
      [] op = "create_many" -> "insert_many"
      [] op \in {"find_by_id", "find_one"} -> "find_one"
      [] op \in {"find_many", "find_all"} -> "find"
      [] op \in {"update_by_id", "update_one"} -> "update_one"
      [] op \in {"delete_by_id", "delete_one"} -> "delete_one"
      [] op \in {"count_documents", "count", "exists"} -> "count_documents"
      [] OTHER -> op

\* The documents of a collection that match, in the order of its cursor.
Docs(n) == [i \in 1..n |-> "d" \o ToString(i)]

\* The second argument an operation takes ("-" when it takes none).
Args2(op) ==
    CASE op \in {"update_by_id", "update_one", "update_many"} -> Updates
      [] op \in {"find_many", "find_all"} -> Limits
      [] OTHER -> {"-"}

\* The identifier passed on as the filter.
IdFilterRaw(doc_id) == doc_id

\* {"_id": doc_id}
IdFilter(doc_id) == "{_id: " \o doc_id \o "}"

\* The filter passed on as it came.
OrEmptyOmitted(query) == query

\* query or {}
OrEmpty(query) == IF query \in {"None", "{}"} THEN "{}" ELSE query

\* if limit:
Truthy(limit) == limit \notin {"None", "0"}

\* The presence check left out.
HasCollectionOmitted(self) == TRUE

\* hasattr(self, 'collection')
HasCollection(self) == GetAttr(self, "collection") # Absent

\* The number the driver answers a call with: the number of matching
\* documents, which count_documents caps at its limit.
Answer(method, b, drv) ==
    IF method = "count_documents" /\ b = "limit=1" /\ drv[2] > 1 THEN 1
    ELSE drv[2]

\* What a call returns to the mixin: "raise", the count of count_documents,
\* the number of documents behind the cursor of find, or the driver's
\* result object.
Response(method, b, drv) ==
    IF drv[1] = "raise" THEN "raise"
    ELSE IF method \in {"count_documents", "find"}
    THEN ToString(Answer(method, b, drv))
    ELSE "res"

\* A call on a collection: <<receiver, method, first argument, second
\* argument, response>>.
Call(c, method, a, b, resp) == <<c, method, a, b, resp>>

\* A call whose result is dropped.
DownstreamDiscarding(self, method, a, b, drv) ==
    LET c == GetAttr(self, "collection")
        resp == Response(method, b, drv)
    IN  IF c[1] \in {"coll", "sub"}
        THEN [result |-> IF resp = "raise" THEN Raise("DriverError", "driver")
                         ELSE Ok("None"),
              calls |-> << Call(c, method, a, b, resp) >>]
        ELSE [result |-> NoneTypeError, calls |-> <<>>]

\* A call made once more when the driver raises.
DownstreamRetrying(self, method, a, b, drv) ==
    LET c == GetAttr(self, "collection")
        resp == Response(method, b, drv)
    IN  IF c[1] \in {"coll", "sub"}
        THEN [result |-> IF resp = "raise" THEN Raise("DriverError", "driver")
                         ELSE Ok(resp),
              calls |-> IF resp = "raise"
                        THEN << Call(c, method, a, b, resp),
                                Call(c, method, a, b, resp) >>
                        ELSE << Call(c, method, a, b, resp) >>]
        ELSE [result |-> NoneTypeError, calls |-> <<>>]

\* self.collection.<method>(a, b): looking the method up on None raises
\* before any call is made; otherwise the call reaches the driver, whose
\* result is returned and whose error propagates.
Downstream(self, method, a, b, drv) ==
    LET c == GetAttr(self, "collection")
        resp == Response(method, b, drv)
    IN  IF c[1] \in {"coll", "sub"}
        THEN [result |-> IF resp = "raise" THEN Raise("DriverError", "driver")
                         ELSE Ok(resp),
              calls |-> << Call(c, method, a, b, resp) >>]
        ELSE [result |-> NoneTypeError, calls |-> <<>>]

\* cursor.limit(k): the cursor over the first k documents.
Take(docs, k) == SubSeq(docs, 1, IF k < Len(docs) THEN k ELSE Len(docs))

\* The value of list(cursor).
ListResult(docs) == <<"ok", "list">> \o docs

\* cursor = self.collection.find(query); if limit: cursor =
\* cursor.limit(limit); return list(cursor)
Find(self, query, limit, drv) ==
    LET d == Downstream(self, "find", OrEmpty(query), "-", drv)
    IN  IF IsRaise(d.result) THEN d
        ELSE IF ~Truthy(limit)
        THEN [result |-> ListResult(Docs(drv[2])), calls |-> d.calls]
        ELSE [result |-> ListResult(Take(Docs(drv[2]), LimitValue(limit))),
              calls |-> d.calls \o
                        << Call(<<"cursor">>, "limit", limit, "-", "cursor") >>]

\* An uncapped count compared with zero.
ExistsUncapped(self, query, drv) ==
    LET d == Downstream(self, "count_documents", query, "-", drv)
    IN  IF IsRaise(d.result) THEN d
        ELSE [result |-> Ok(IF Answer("count_documents", "-", drv) > 0
                            THEN "True" ELSE "False"),
              calls |-> d.calls]

\* return self.collection.count_documents(query, limit=1) > 0
Exists(self, query, drv) ==
    LET d == Downstream(self, "count_documents", query, "limit=1", drv)
    IN  IF IsRaise(d.result) THEN d
        ELSE [result |-> Ok(IF Answer("count_documents", "limit=1", drv) > 0
                            THEN "True" ELSE "False"),
              calls |-> d.calls]

\* The body of a CRUDMixin operation after its presence check.
MixinBody(self, op, a1, a2, drv) ==
    CASE op = "create" -> Downstream(self, "insert_one", a1, "-", drv)
      [] op = "create_many" -> Downstream(self, "insert_many", a1, "-", drv)
      [] op = "find_by_id" -> Downstream(self, "find_one", IdFilter(a1), "-", drv)
      [] op = "find_one" -> Downstream(self, "find_one", a1, "-", drv)
      [] op \in {"find_many", "find_all"} -> Find(self, a1, a2, drv)
      [] op = "update_by_id" -> Downstream(self, "update_one", IdFilter(a1), a2, drv)
      [] op = "update_one" -> Downstream(self, "update_one", a1, a2, drv)
      [] op = "update_many" -> Downstream(self, "update_many", a1, a2, drv)
      [] op = "delete_by_id" -> Downstream(self, "delete_one", IdFilter(a1), "-", drv)
      [] op = "delete_one" -> Downstream(self, "delete_one", a1, "-", drv)
      [] op = "delete_many" -> Downstream(self, "delete_many", a1, "-", drv)
      [] op = "count_documents" ->
             Downstream(self, "count_documents", OrEmpty(a1), "-", drv)
      [] op = "exists" -> Exists(self, a1, drv)

\* A CRUDMixin operation other than count: the presence check, then the body.
MixinOp(self, op, a1, a2, drv) ==
    IF ~HasCollection(self)
    THEN [result |-> NoCollectionError, calls |-> <<>>]
    ELSE MixinBody(self, op, a1, a2, drv)

\* The capability set placed before the user type.
BaseClassesMixinFirst(with_crud) ==
    IF with_crud THEN <<"CRUDMixin", "cls">> ELSE <<"cls">>

\* base_classes = [cls]; if with_crud: base_classes.append(CRUDMixin)
BaseClasses(with_crud) ==
    IF with_crud THEN <<"cls", "CRUDMixin">> ELSE <<"cls">>

\* Whether a base class of the wrapped type t defines the operation.
Defines(base, t, op) ==
    IF base = "cls" THEN op \in t.cls.ops
    ELSE IF base = "sub" THEN op \in t.sub
    ELSE op \in CrudOps

\* The first of the bases, in method resolution order, that defines the
\* operation ("none" when none does).
Resolve(t, op, bases) ==
    LET ds == SelectSeq(bases, LAMBDA b : Defines(b, t, op))
    IN  IF ds = <<>> THEN "none" ELSE ds[1]

\* The bases super() searches from inside a method of cls: those after cls.
AfterCls(bases) ==
    LET i == CHOOSE k \in 1..Len(bases) : bases[k] = "cls"
    IN  SubSeq(bases, i + 1, Len(bases))

\* The bases super() searches from inside a method of the subclass.
AfterSub(bases) ==
    LET i == CHOOSE k \in 1..Len(bases) : bases[k] = "sub"
    IN  SubSeq(bases, i + 1, Len(bases))

\* A subclass searched after the bases of the type it extends.
MroSubclassLast(t) == BaseClasses(t.with_crud) \o <<"sub">>

\* The method resolution order of the type of an instance: a subclass comes
\* before Wrapped, whose bases are base_classes.
Mro(t) == <<"sub">> \o BaseClasses(t.with_crud)

\* data['source'] = 'extended': the argument as the subclass passes it on.
Tag(a) == a \o "+source"

\* data['source'] = ... on None
NoItemAssignmentError ==
    Raise("TypeError", "NoneType object does not support item assignment")

\* instance.<op>(a1, a2): the definition found first in the method
\* resolution order of the type of the instance runs.  A redefinition in a
\* subclass marks its argument and delegates with super(); the user's create
\* validates its argument and delegates with super(); CRUDMixin.count calls
\* self.count_documents.
RECURSIVE InvokeAs(_, _, _, _, _, _)
RECURSIVE InvokeFrom(_, _, _, _, _, _, _)

\* CRUDMixin.<op>(self, ...): the default called whatever self redefines.
SelfCallDirect(t, self, op, a1, a2, drv) == MixinOp(self, op, a1, a2, drv)

\* self.<op>(...) inside a method: resolved in the type of self.
SelfCall(t, self, op, a1, a2, drv) == InvokeAs(t, self, op, a1, a2, drv)

\* A count that leaves its filter behind.
CountUnfiltered(t, self, query, a2, drv) ==
    SelfCall(t, self, "count_documents", "None", a2, drv)

\* return self.count_documents(query)
Count(t, self, query, a2, drv) ==
    SelfCall(t, self, "count_documents", query, a2, drv)

\* The operation looked up in bases, a tail of the method resolution order
\* (all of it for a call on the instance, the rest of it for super()).
InvokeFrom(t, self, bases, op, a1, a2, drv) ==
    LET owner == Resolve(t, op, bases)
    IN  IF owner = "none"
        THEN [result |-> IF Len(bases) = Len(Mro(t))
                         THEN Raise("AttributeError",
                                    "object has no attribute " \o op)
                         ELSE Raise("AttributeError",
                                    "super object has no attribute"),
              calls |-> <<>>]
        ELSE IF owner = "sub"
        THEN IF a1 = "None"
             THEN [result |-> NoItemAssignmentError, calls |-> <<>>]
             ELSE InvokeFrom(t, self, AfterSub(bases), op, Tag(a1), a2, drv)
        ELSE IF owner = "cls"
        THEN IF a1 = "None" THEN [result |-> NoneTypeError, calls |-> <<>>]
             ELSE IF a1 \notin {"x", Tag("x")}
             THEN [result |-> Raise("ValueError", "Email required"),
                   calls |-> <<>>]
             ELSE InvokeFrom(t, self, AfterCls(bases), op, a1, a2, drv)
        ELSE IF op = "count" THEN Count(t, self, a1, a2, drv)
        ELSE MixinOp(self, op, a1, a2, drv)

InvokeAs(t, self, op, a1, a2, drv) ==
    InvokeFrom(t, self, Mro(t), op, a1, a2, drv)

\* Operations resolved with the definitions of the user type decorated
\* last, as if every Wrapped shared one set of overrides.
InvokeSharedOverrides(self, op, a1, a2, drv) ==
    InvokeAs(IF wrapped.kind \in {"single", "multi"}
             THEN [self.cls EXCEPT !.cls = wrapped.cls] ELSE self.cls,
             self, op, a1, a2, drv)

\* instance.<op>(a1, a2), resolved in the type of the instance.
Invoke(self, op, a1, a2, drv) == InvokeAs(self.cls, self, op, a1, a2, drv)

\* A marker that does not look at the flag.
CrudInfoAlways(with_crud) == <<" with CRUD">>

\* crud_info = " with CRUD" if with_crud else ""
CrudInfo(with_crud) == IF with_crud THEN <<" with CRUD">> ELSE <<>>

\* ', '.join(f"{k}='{v}'" for k, v in collections.items()), from entry k on.
RECURSIVE CollectionsStr(_, _)
CollectionsStr(cmap, k) ==
    IF k > Len(cmap) THEN <<>>
    ELSE (IF k > 1 THEN <<", ">> ELSE <<>>)
         \o << cmap[k][1], "='", cmap[k][2], "'" >>
         \o CollectionsStr(cmap, k + 1)

\* Wrapped.__repr__: the pieces the f-string puts together, in order.
Repr(self) ==
    LET t == self.cls
    IN  IF t.kind = "single"
        THEN << t.cls.id, "(collection='", t.name, "'" >>
             \o CrudInfo(t.with_crud) \o << ")" >>
        ELSE << t.cls.id, "(collections={" >> \o CollectionsStr(t.cmap, 1)
             \o << "}" >> \o CrudInfo(t.with_crud) \o << ")" >>

\* hasattr(instance, op) for an operation name.
HasOp(obj, op) == op \in obj.cls.cls.ops \/ obj.cls.with_crud

----------------------------------------------------------------------------
(* State *)

\* injector: the db attribute of the CollectionInjector client code has
\*          constructed, absent before it has one.
\* decorator: the closure a decorator factory has returned and that is about
\*          to be applied to a class (its name or name map and its flag).
\* wrapped: the class client code currently holds: the Wrapped type of the
\*          latest successful decoration, CRUDMixin or TestCRUDClass.
\* inst:    the instance of that class client code holds, if any.
\* cons:    the position of the running Wrapped.__init__ (k indexes
\*          InitSteps, 0 when no construction is running), the object
\*          under construction, the steps done, whether the user
\*          initializer found self.collection present, the arguments of
\*          the construction and how many times the body of the user
\*          initializer has run.
\* last:    the most recent call made by client code: the operation, its
\*          arguments (req is the decorated or constructed type, a1 of a
\*          decoration the wraps in effect, a1 of a factory call the name
\*          as passed or the number of entries of the name map, a2 of a
\*          factory call and of the decoration that follows it the flag as
\*          passed), its outcome, the
\*          calls that
\*          reached a collection, the names looked up on the injector's
\*          handle, and for a construction the steps and what cons saw
\*          (a1 its arguments, a2 the runs of the user initializer's body).
Last(op, a1, a2, req, result, calls, lookups, steps, seen) ==
    [op |-> op, a1 |-> a1, a2 |-> a2, req |-> req, result |-> result,
     calls |-> calls, lookups |-> lookups, steps |-> steps, seen |-> seen]

NoLast == Last("none", "-", "-", NoType, Ok("none"), <<>>, <<>>, <<>>, FALSE)

Cons(k, obj, steps, seen, args, runs) ==
    [k |-> k, obj |-> obj, steps |-> steps, seen |-> seen, args |-> args,
     runs |-> runs]

Idle == Cons(0, NoInst, <<>>, FALSE, "none", 0)

\* The closure wrapper of collection(name, with_crud) or of
\* multiple_collections(with_crud, **collections).
Decorator(kind, name, cmap, with_crud) ==
    WrappedType(kind, name, cmap, with_crud, NoUser)

NoDecorator == NoType

\* Client code is between calls: no decorator is waiting for its class and
\* no initializer is running.
Ready == decorator = NoDecorator /\ cons = Idle

\* Client code has no injector.
NoInjector == Absent

\* An initializer that stores whatever it is given.
InjectorInitUnchecked(db) == [result |-> Ok("injector"), db |-> db]

\* CollectionInjector.__init__(self, db): if db is None: raise ValueError;
\* self.db = db
InjectorInit(db) ==
    IF db = None
    THEN [result |-> Raise("ValueError", "Database instance cannot be None"),
          db |-> Absent]
    ELSE [result |-> Ok("injector"), db |-> db]

Init ==
    /\ injector = NoInjector
    /\ decorator = NoDecorator
    /\ wrapped = NoType
    /\ inst = NoInst
    /\ cons = Idle
    /\ last = NoLast

----------------------------------------------------------------------------
(* Actions *)

\* The wraps bound in mongollect.core when a decorator runs: functools.wraps
\* as imported, or mock_wraps while a test has it patched in.
WrapsImpls == {"functools", "mock_wraps"}

\* CollectionInjector(db): client code gets its injector, or the error of
\* the initializer and no injector.
NewInjector(db) ==
    /\ Ready
    /\ injector = NoInjector
    /\ LET r == InjectorInit(db)
       IN  /\ injector' = IF IsRaise(r.result) THEN injector ELSE r.db
           /\ last' = Last("CollectionInjector", db[Len(db)], "-", NoType,
                           r.result, <<>>, <<>>, <<>>, FALSE)
    /\ UNCHANGED <<decorator, wrapped, inst, cons>>

\* The with_crud argument of a decorator factory: left out, a boolean, or
\* the string 'invalid'.
Flags == {"omitted", "True", "False", "invalid"}

\* A default of True for both factories.
DefaultCrudAlways(kind) == TRUE

\* The default of with_crud: True for collection, False for
\* multiple_collections.
DefaultCrud(kind) == kind = "single"

\* What `if with_crud` makes of the parameter with_crud: its default when
\* it is left out, its truth value otherwise (a non-empty string is true).
WithCrud(kind, flag) ==
    IF flag = "omitted" THEN DefaultCrud(kind) ELSE flag \in {"True", "invalid"}

\* A string passed as a collection name.
Str(text) == <<"str", text>>

\* The name argument of collection: a string, the empty one included, None
\* or an integer.
NameArgs == {Str(n) : n \in CNames \cup {""}} \cup {None, <<"int", "42">>}

\* The name argument as written in the call.
ArgText(v) == IF v = None THEN "None" ELSE v[1] \o ":" \o v[2]

\* A check that only asks for a true value.
IsValidNameTruthy(v) == v \notin {None, Str("")}

\* not (not name or not isinstance(name, str))
IsValidName(v) == v[1] = "str" /\ v[2] # ""

\* A check that is left out.
IsEmptyMapIgnored(cmap) == FALSE

\* not collections
IsEmptyMap(cmap) == cmap = <<>>

\* injector.collection(name) or injector.collection(name, with_crud): the
\* decorator is returned.
CallCollection(name, flag) ==
    /\ Ready
    /\ injector # NoInjector
    /\ IF IsValidName(name)
       THEN /\ decorator' = Decorator("single", name[2], <<>>,
                                      WithCrud("single", flag))
            /\ last' = Last("collection", ArgText(name), flag, NoType,
                            Ok("decorator"), <<>>, <<>>, <<>>, FALSE)
       ELSE /\ decorator' = decorator
            /\ last' = Last("collection", ArgText(name), flag, NoType,
                            Raise("ValueError",
                                  "Collection name must be a non-empty string"),
                            <<>>, <<>>, <<>>, FALSE)
    /\ UNCHANGED <<injector, wrapped, inst, cons>>

\* injector.multiple_collections(**cmap) or
\* injector.multiple_collections(with_crud, **cmap): the decorator is
\* returned.
CallMultipleCollections(cmap, flag) ==
    /\ Ready
    /\ injector # NoInjector
    /\ IF ~IsEmptyMap(cmap)
       THEN /\ decorator' = Decorator("multi", "", cmap, WithCrud("multi", flag))
            /\ last' = Last("multiple_collections", ToString(Len(cmap)), flag,
                            NoType, Ok("decorator"), <<>>, <<>>, <<>>, FALSE)
       ELSE /\ decorator' = decorator
            /\ last' = Last("multiple_collections", ToString(Len(cmap)), flag,
                            NoType,
                            Raise("ValueError",
                                  "At least one collection must be specified"),
                            <<>>, <<>>, <<>>, FALSE)
    /\ UNCHANGED <<injector, wrapped, inst, cons>>

\* wrapper(cls): the decorator is applied to a class.  A wrapped type
\* replaces the class client code held, and an error leaves that class as
\* it was; client code keeps the instance it has, or lets it go when it
\* decorates another class.
Decorate(cls, wrapsImpl, keep) ==
    /\ decorator # NoDecorator
    /\ LET d == IF decorator.kind = "single"
                THEN CollectionWrapper(decorator.name, decorator.with_crud,
                                       cls, wrapsImpl)
                ELSE MultipleWrapper(decorator.cmap, decorator.with_crud,
                                     cls, wrapsImpl)
       IN  /\ wrapped' = IF IsRaise(d.result) THEN wrapped ELSE d.type
           /\ inst' = IF keep THEN inst ELSE NoInst
           /\ last' = Last("wrapper", wrapsImpl, last.a2,
                           WrappedType(decorator.kind, decorator.name,
                                       decorator.cmap, decorator.with_crud, cls),
                           d.result, <<>>, d.lookups, <<>>, FALSE)
    /\ decorator' = NoDecorator
    /\ UNCHANGED <<injector, cons>>

\* wrapper(cls) by client code that is done with its previous instance.
ApplyDecorator(cls, wrapsImpl) == Decorate(cls, wrapsImpl, FALSE)

\* wrapper(cls) by client code that goes on using its previous instance.
ApplyDecoratorKeeping(cls, wrapsImpl) == Decorate(cls, wrapsImpl, TRUE)

\* Client code turns to CRUDMixin itself or to TestCRUDClass.
UseClass(c) ==
    /\ Ready
    /\ wrapped # c
    /\ wrapped' = c
    /\ inst' = NoInst
    /\ last' = NoLast
    /\ UNCHANGED <<injector, decorator, cons>>

\* The sets of operations the subclasses redefine.
SubOpSets == { {"create"},
               {"find_one", "update_one", "delete_one", "count_documents"} }

\* class Sub(Wrapped): client code defines a subclass of the wrapped type
\* it holds and goes on with the subclass; the instance it has stays an
\* instance of the wrapped type.
DefineSubclass(ops) ==
    /\ Ready
    /\ wrapped.kind \in {"single", "multi"}
    /\ wrapped.sub = {}
    /\ wrapped' = SubclassOf(wrapped, ops)
    /\ last' = NoLast
    /\ UNCHANGED <<injector, decorator, inst, cons>>

\* The argument lists of a construction: empty or not.
ArgLists == {"none", "some"}

\* The initializers user types have: one that takes no argument, one that
\* takes any, one whose body raises TypeError when it is given an argument
\* (it converts it), one whose body always raises TypeError and one whose
\* body raises ValueError.  Each body writes its attributes before it
\* raises.
InitKinds == {"noargs", "anyargs", "typeerror_on_args", "typeerror_always",
              "valueerror"}

\* base.__init__(self, *args, **kwargs), one call: a call the signature
\* rejects raises TypeError without running the body.
CallInit(kind, args) ==
    IF kind = "noargs" /\ args # "none"
    THEN [runs |-> 0, outcome |-> "TypeError"]
    ELSE [runs |-> 1,
          outcome |-> CASE kind = "typeerror_always" -> "TypeError"
                        [] kind = "typeerror_on_args" /\ args # "none" ->
                               "TypeError"
                        [] kind = "valueerror" -> "ValueError"
                        [] OTHER -> "ok"]

\* try: base.__init__(self, *args, **kwargs)
\* except TypeError: if base is not object: base.__init__(self)
InitBase(kind, args) ==
    LET first == CallInit(kind, args)
    IN  IF first.outcome # "TypeError" THEN first
        ELSE LET second == CallInit(kind, "none")
             IN  [runs |-> first.runs + second.runs, outcome |-> second.outcome]

\* Wrapped(*args): a new object enters Wrapped.__init__.
Construct(args) ==
    /\ Ready
    /\ wrapped.kind \in {"single", "multi"}
    /\ cons' = Cons(1, Object(wrapped, NoAttrs), <<>>, FALSE, args, 0)
    /\ last' = NoLast
    /\ UNCHANGED <<injector, decorator, wrapped, inst>>

\* The step of the loop over base_classes for base = cls, the user's
\* initializer being of the given kind: the loop goes on, or the error the
\* initializer raised ends the construction.
UserInit(kind) ==
    /\ cons.k > 0
    /\ InitSteps(cons.obj.cls.with_crud)[cons.k] = "user_init"
    /\ LET r == InitBase(kind, cons.args)
           obj == IF r.runs > 0 THEN RunUserInit(cons.obj) ELSE cons.obj
       IN  IF r.outcome = "ok"
           THEN /\ cons' = Cons(cons.k + 1, obj, Append(cons.steps, "user_init"),
                                HasCollection(cons.obj), cons.args, r.runs)
                /\ UNCHANGED last
           ELSE /\ cons' = Idle
                /\ last' = Last("construct", cons.args, ToString(r.runs),
                                cons.obj.cls, Raise(r.outcome, "initializer"),
                                <<>>, <<>>, Append(cons.steps, "user_init"),
                                HasCollection(cons.obj))
    /\ UNCHANGED <<injector, decorator, wrapped, inst>>

\* The step of the loop for base = CRUDMixin, whose __init__ is
\* object.__init__: it writes nothing, and the TypeError it raises when
\* given arguments is followed by CRUDMixin.__init__(self).
MixinInit ==
    /\ cons.k > 0
    /\ InitSteps(cons.obj.cls.with_crud)[cons.k] = "mixin_init"
    /\ cons' = Cons(cons.k + 1, cons.obj, Append(cons.steps, "mixin_init"),
                    cons.seen, cons.args, cons.runs)
    /\ UNCHANGED <<injector, decorator, wrapped, inst, last>>

\* The injection that ends Wrapped.__init__: the instance is returned to
\* the caller, or the error of the lookup is raised.
InjectStep ==
    /\ cons.k > 0
    /\ InitSteps(cons.obj.cls.with_crud)[cons.k] = "inject"
    /\ \E subscriptable \in BOOLEAN :
         LET r == Inject(cons.obj, subscriptable)
         IN  /\ inst' = IF IsRaise(r.result) THEN inst ELSE r.obj
             /\ last' = Last("construct", cons.args, ToString(cons.runs),
                             cons.obj.cls, r.result, <<>>, <<>>,
                             Append(cons.steps, "inject"), cons.seen)
    /\ cons' = Idle
    /\ UNCHANGED <<injector, decorator, wrapped>>

\* CRUDMixin(): an object of the bare capability set.
ConstructMixin ==
    /\ Ready
    /\ wrapped = MixinType
    /\ inst' = Object(MixinType, NoAttrs)
    /\ last' = NoLast
    /\ UNCHANGED <<injector, decorator, wrapped, cons>>

\* TestCRUDClass(collection): self.collection = collection.
ConstructTestCRUD(c) ==
    /\ Ready
    /\ wrapped = TestCRUDClass
    /\ inst' = AssignCollection(Object(TestCRUDClass, NoAttrs), c)
    /\ last' = NoLast
    /\ UNCHANGED <<injector, decorator, wrapped, cons>>

\* service.collection = None
SetCollectionNone ==
    /\ Ready
    /\ inst # NoInst
    /\ GetAttr(inst, "collection") # None
    /\ inst' = AssignCollection(inst, None)
    /\ last' = NoLast
    /\ UNCHANGED <<injector, decorator, wrapped, cons>>

\* An operation that keeps the cursor of its find in self.collection.
AfterOpKeepingCursor(self, op) ==
    IF op \in {"find_many", "find_all"} /\ HasCollection(self)
    THEN SetAttr(self, "collection", <<"cursor">>) ELSE self

\* self after an operation of CRUDMixin or of the user type: no method
\* assigns to an attribute of self.
AfterOp(self, op) == self

\* instance.<op>(a1, a2)
CallOp(op, a1, a2, drv) ==
    /\ Ready
    /\ inst # NoInst
    /\ LET r == Invoke(inst, op, a1, a2, drv)
       IN  last' = Last(op, a1, a2, NoType, r.result, r.calls, <<>>, <<>>, FALSE)
    /\ inst' = AfterOp(inst, op)
    /\ UNCHANGED <<injector, decorator, wrapped, cons>>

\* repr(instance) of an instance of a wrapped type.
CallRepr ==
    /\ Ready
    /\ inst # NoInst
    /\ inst.cls.kind \in {"single", "multi"}
    /\ last' = Last("repr", "-", "-", NoType, <<"ok", "repr">> \o Repr(inst),
                    <<>>, <<>>, <<>>, FALSE)
    /\ UNCHANGED <<injector, decorator, wrapped, inst, cons>>

\* instance.<attr>.insert_one(a1): a call through a named attribute.
CallAttr(attr, a1, drv) ==
    /\ Ready
    /\ inst # NoInst
    /\ GetAttr(inst, attr)[1] \in {"coll", "sub"}
    /\ last' = Last("attr:" \o attr, a1, "-", NoType,
                    IF drv[1] = "ret" THEN Ok("res")
                    ELSE Raise("DriverError", "driver"),
                    << Call(GetAttr(inst, attr), "insert_one", a1, "-",
                            Response("insert_one", "-", drv)) >>,
                    <<>>, <<>>, FALSE)
    /\ UNCHANGED <<injector, decorator, wrapped, inst, cons>>

Next ==
    \/ \E db \in {None, Handle(InjectorDb)} : NewInjector(db)
    \/ \E name \in NameArgs, flag \in Flags : CallCollection(name, flag)
    \/ \E cmap \in NameMaps \cup {<<>>}, flag \in Flags :
         CallMultipleCollections(cmap, flag)
    \/ \E cls \in UserTypes, wrapsImpl \in WrapsImpls :
         ApplyDecorator(cls, wrapsImpl)
    \/ \E c \in {MixinType, TestCRUDClass} : UseClass(c)
    \/ \E args \in ArgLists : Construct(args)
    \/ \E kind \in InitKinds : UserInit(kind)
    \/ MixinInit
    \/ InjectStep
    \/ ConstructMixin
    \/ \E c \in {None, Coll(InjectorDb, "a")} : ConstructTestCRUD(c)
    \/ SetCollectionNone
    \/ \E op \in CrudOps, a1 \in Args1 :
         \E a2 \in Args2(op), drv \in OutcomesOf(MethodOf(op)) :
             CallOp(op, a1, a2, drv)
    \/ \E attr \in AttrNames, a1 \in {"x"}, drv \in OutcomesOf("insert_one") :
         CallAttr(attr, a1, drv)
    \/ CallRepr

Spec == Init /\ [][Next]_vars

\* Several types decorated through collection(name) by one injector, an
\* instance of an earlier one staying in use after the later decorations.
NextIndependent ==
    \/ NewInjector(Handle(InjectorDb))
    \/ \E name \in {"a", "b"}, flag \in Flags : CallCollection(Str(name), flag)
    \/ \E cls \in UserTypes : ApplyDecoratorKeeping(cls, "mock_wraps")
    \/ Construct("none")
    \/ UserInit("noargs")
    \/ MixinInit
    \/ InjectStep
    \/ \E op \in CrudOps, a1 \in Args1 :
         \E a2 \in Args2(op), drv \in OutcomesOf(MethodOf(op)) :
             CallOp(op, a1, a2, drv)

SpecIndependent == Init /\ [][NextIndependent]_vars

\* An injector constructed with any handle, and the decorations made
\* through it.
NextInjector ==
    \/ \E db \in {None, Handle(InjectorDb), Handle(OtherDb)} : NewInjector(db)
    \/ \E name \in NameArgs, flag \in Flags : CallCollection(name, flag)
    \/ \E cmap \in NameMaps \cup {<<>>}, flag \in Flags :
         CallMultipleCollections(cmap, flag)
    \/ \E cls \in UserTypes, wrapsImpl \in WrapsImpls :
         ApplyDecorator(cls, wrapsImpl)

SpecInjector == Init /\ [][NextInjector]_vars


\* Client code that decorates user types through collection("a") and
\* defines subclasses of the wrapped types.
NextSubclass ==
    \/ NewInjector(Handle(InjectorDb))
    \/ \E flag \in {"omitted", "False"} : CallCollection(Str("a"), flag)
    \/ \E cls \in UserTypes : ApplyDecorator(cls, "mock_wraps")
    \/ \E ops \in SubOpSets : DefineSubclass(ops)
    \/ Construct("none")
    \/ UserInit("noargs")
    \/ MixinInit
    \/ InjectStep
    \/ \E op \in CrudOps, a1 \in Args1 :
         \E a2 \in Args2(op), drv \in OutcomesOf(MethodOf(op)) :
            CallOp(op, a1, a2, drv)

SpecSubclass == Init /\ [][NextSubclass]_vars

----------------------------------------------------------------------------
(* Properties *)

\* The last call was a CRUDMixin operation that ran CRUDMixin's own
\* definition on the instance client code holds.
DefaultOpCalled ==
    /\ last.op \in CrudOps
    /\ inst.cls.with_crud
    /\ last.op \notin inst.cls.cls.ops

\* The classes present in the state: the one client code holds, the one of
\* its instance and the one of the object under construction.
TypesPresent == {wrapped, inst.cls, cons.obj.cls}

\* A lookup on the injector's handle fails.
LookupFails(n) == IsRaise(DbLookup(InjectorDb, n))

\* The handle has no collection of that name: the lookup raises KeyError.
HandleLacks(n) == DbLookup(InjectorDb, n) = Raise("KeyError", "handle")

\* The last call applied a decorator of that kind to a class.
Decorated(kind) ==
    /\ last.op = "wrapper"
    /\ last.req.kind = kind
    /\ last.req.cls.isClass

\* The handle the instance attribute db of a user type's instances holds.
DbOf(cls) == IF cls.initDb # Skip THEN cls.initDb ELSE cls.classDb

\* C1: every CRUDMixin operation, whatever its arguments, invoked on an
\* instance that has no collection attribute raises the 'No collection
\* found' AttributeError and makes no call on any collection.
C1_NoCollectionError ==
    (DefaultOpCalled /\ GetAttr(inst, "collection") = Absent)
        => (last.result = NoCollectionError /\ last.calls = <<>>)

C1_Witness ==
    /\ DefaultOpCalled
    /\ last.op = "count"
    /\ last.a1 = "x"
    /\ GetAttr(inst, "collection") = Absent
    /\ last.result = NoCollectionError

\* C2: with instance.collection set to None (reassigned, or passed to the
\* constructor), every CRUDMixin operation raises the same 'No collection
\* found' error of the presence check and attempts no call.
C2_NoneIsNoCollection ==
    (DefaultOpCalled /\ GetAttr(inst, "collection") = None)
        => (last.result = NoCollectionError /\ last.calls = <<>>)

\* C3: constructing an instance of a type produced by collection(name)
\* succeeds whatever db attribute the user type has, and stores the
\* collection `name` of the injector's handle as instance.collection.
C3_ResolvedAgainstInjector ==
    (last.op = "construct" /\ last.req.kind = "single")
        => /\ last.result = Ok("instance")
           /\ inst.cls = last.req
           /\ inst.attrs["collection"] = Coll(InjectorDb, last.req.name)

\* C4: Wrapped.__init__ of a type produced by collection(name) runs the user
\* initializer first, then CRUDMixin's (if it is a base), and, unless an
\* initializer raised, assigns collection last: the user initializer finds
\* collection absent, until the
\* last step collection holds at most what the user initializer wrote, and
\* a completed construction leaves collection holding the named collection
\* and not the user initializer's value.
C4_AssignmentLast ==
    /\ (cons.k > 0 /\ cons.obj.cls.kind = "single")
         => /\ cons.obj.attrs["collection"] \in {Absent, UserVal}
            /\ cons.steps \in {<<>>, <<"user_init">>, <<"user_init", "mixin_init">>}
            /\ cons.obj.attrs["collection"] = UserVal => cons.steps # <<>>
    /\ (last.op = "construct" /\ last.req.kind = "single"
          /\ last.steps[Len(last.steps)] = "inject")
         => /\ last.steps = IF last.req.with_crud
                            THEN <<"user_init", "mixin_init", "inject">>
                            ELSE <<"user_init", "inject">>
            /\ ~last.seen
            /\ last.result = Ok("instance")
                 => /\ inst.cls = last.req
                    /\ inst.attrs["collection"] =
                         Coll(DbOf(last.req.cls)[2], last.req.name)

C4_Witness ==
    /\ last.op = "construct"
    /\ last.req.kind = "single"
    /\ last.req.with_crud
    /\ last.req.cls.initColl = UserVal
    /\ last.result = Ok("instance")
    /\ inst.attrs["collection"] = Coll(InjectorDb, last.req.name)

\* C5: applying the decorator of collection(name) to a class when the handle
\* has no collection `name` raises the 'not accessible' KeyError; no wrapped
\* type with a name whose lookup fails exists, so none is held, constructed
\* or initialized.
C5_UnknownNameFailsDecoration ==
    /\ (Decorated("single") /\ HandleLacks(last.req.name))
         => /\ last.result = NotAccessibleError
            /\ wrapped # last.req
    /\ \A t \in TypesPresent : t.kind = "single" => ~LookupFails(t.name)

C5_Witness ==
    /\ Decorated("single")
    /\ last.a1 = "mock_wraps"
    /\ HandleLacks(last.req.name)
    /\ last.result = NotAccessibleError
    /\ wrapped.kind = "single"

\* The name whose lookup ended the validation of the last decoration.
FailedName == last.lookups[Len(last.lookups)]

\* The last call applied a decorator to a class and a lookup failed.
LookupFailed ==
    /\ last.op = "wrapper"
    /\ last.req.cls.isClass
    /\ last.lookups # <<>>
    /\ LookupFails(FailedName)

\* C6 as stated: whatever error the handle raises at the decoration-time
\* lookup, the decorator raises the 'not accessible' KeyError.
C6_AnyErrorConverted == LookupFailed => last.result = NotAccessibleError

\* C6 as amended: a KeyError or AttributeError of the handle at the
\* decoration-time lookup is reported as the 'not accessible' KeyError; an
\* error of any other type reaches the caller as the handle raised it.
C6_KeyAndAttributeErrorConverted ==
    LookupFailed =>
        LET e == DbLookup(InjectorDb, FailedName)
        IN  IF e[2] \in {"KeyError", "AttributeError"}
            THEN last.result = NotAccessibleError
            ELSE last.result = e

C6_Witness ==
    /\ LookupFailed
    /\ last.req.kind = "multi"
    /\ DbLookup(InjectorDb, FailedName)[2] = "AttributeError"
    /\ last.result = NotAccessibleError

\* Some entry of the name map names a collection whose lookup fails.
SomeEntryFails(cmap) == \E k \in 1..Len(cmap) : LookupFails(cmap[k][2])

RECURSIVE BoundName(_, _, _)
BoundName(cmap, attr, k) ==
    IF cmap[k][1] = attr THEN cmap[k][2] ELSE BoundName(cmap, attr, k + 1)

MapAttrs(cmap) == {cmap[k][1] : k \in 1..Len(cmap)}

\* The collection `n` of the handle the instances of a wrapped type hold.
BoundColl(t, n) == Coll(DbOf(t.cls)[2], n)

\* C8: on an instance of a multiple_collections type with the capability
\* set, every default operation calls the collection of the first declared
\* entry and no other, and a call through a named attribute reaches the
\* collection bound to that attribute.
C8_DefaultIsFirstDeclared ==
    (inst.cls.kind = "multi" /\ inst.cls.with_crud) =>
        /\ DefaultOpCalled =>
             \A i \in 1..Len(last.calls) :
                 last.calls[i][1] \in {BoundColl(inst.cls, inst.cls.cmap[1][2]),
                                       <<"cursor">>}
        /\ \A attr \in MapAttrs(inst.cls.cmap) :
             last.op = "attr:" \o attr =>
                 /\ Len(last.calls) = 1
                 /\ SubSeq(last.calls[1], 1, 4) =
                      << BoundColl(inst.cls, BoundName(inst.cls.cmap, attr, 1)),
                         "insert_one", last.a1, "-" >>

\* C9: after construction of an instance of a multiple_collections type,
\* every attribute of the name map, whatever its name, holds the collection
\* the injector's handle returns for the mapped collection name.
C9_EveryAttributeBound ==
    (last.op = "construct" /\ last.req.kind = "multi"
       /\ last.result = Ok("instance")) =>
        \A k \in 1..Len(last.req.cmap) :
            inst.attrs[last.req.cmap[k][1]] = Coll(InjectorDb, last.req.cmap[k][2])

\* C10: a type produced with with_crud=False has the capability-set
\* operations its user type defines and no other, and its constructed
\* instances hold the bound collection(s): collection for collection(name),
\* every named attribute for multiple_collections.
C10_NoCrudStillInjected ==
    /\ \A t \in TypesPresent :
         (t.kind \in {"single", "multi"} /\ ~t.with_crud) =>
             \A op \in CrudOps :
                 HasOp(Object(t, NoAttrs), op) <=> op \in t.cls.ops
    /\ (last.op = "construct" /\ ~last.req.with_crud
          /\ last.result = Ok("instance")) =>
         IF last.req.kind = "single"
         THEN inst.attrs["collection"] = BoundColl(last.req, last.req.name)
         ELSE \A k \in 1..Len(last.req.cmap) :
                  inst.attrs[last.req.cmap[k][1]] =
                      BoundColl(last.req, last.req.cmap[k][2])

\* C11: with the flag left out, collection(name) yields a type with every
\* capability-set operation, and multiple_collections a type that has only
\* the operations its user type defines; an instance of a
\* multiple_collections type without the capability set gets no collection
\* attribute from the framework unless the name map names one.
C11_DefaultFlags ==
    /\ (last.op \in {"collection", "multiple_collections"}
          /\ last.a2 = "omitted" /\ ~IsRaise(last.result)) =>
         decorator.with_crud = (last.op = "collection")
    /\ (last.op = "wrapper" /\ last.a2 = "omitted" /\ ~IsRaise(last.result)) =>
         /\ wrapped.with_crud = (wrapped.kind = "single")
         /\ \A op \in CrudOps :
              HasOp(Object(wrapped, NoAttrs), op) <=>
                  (wrapped.kind = "single" \/ op \in wrapped.cls.ops)
    /\ (last.op = "construct" /\ last.result = Ok("instance")
          /\ last.req.kind = "multi" /\ ~last.req.with_crud
          /\ "collection" \notin MapAttrs(last.req.cmap)) =>
         inst.attrs["collection"] =
             (IF last.req.cls.initColl = Skip THEN Absent
              ELSE last.req.cls.initColl)

C11_Witness ==
    /\ last.op = "wrapper"
    /\ last.a2 = "omitted"
    /\ ~IsRaise(last.result)
    /\ wrapped.kind = "multi"
    /\ ~wrapped.with_crud
    /\ "create" \notin wrapped.cls.ops

\* C12: on an instance of a type with the capability set whose user type
\* redefines create to validate and then delegate, a valid document makes
\* exactly one insert_one call on the bound collection with the document as
\* passed, and a document without the required field raises the user's
\* validation error and makes no call.
C12_OverrideRunsFirst ==
    (/\ last.op = "create"
     /\ "create" \in inst.cls.cls.ops
     /\ inst.cls.with_crud
     /\ GetAttr(inst, "collection")[1] \in {"coll", "sub"}) =>
        /\ last.a1 = "x" =>
             /\ Len(last.calls) = 1
             /\ SubSeq(last.calls[1], 1, 4) =
                  << GetAttr(inst, "collection"), "insert_one", "x", "-" >>
        /\ last.a1 = "{}" =>
             /\ last.result = Raise("ValueError", "Email required")
             /\ last.calls = <<>>

C12_Witness ==
    /\ last.op = "create"
    /\ "create" \in inst.cls.cls.ops
    /\ inst.cls.with_crud
    /\ GetAttr(inst, "collection")[1] = "coll"
    /\ last.a1 = "{}"
    /\ last.result = Raise("ValueError", "Email required")

\* C13: an instance of a type decorated through collection(name) behaves by
\* its own type whatever was decorated afterwards with the same injector,
\* the same name included: it holds the collection of its own closed-over
\* name, its calls go to that collection, the capability set is available
\* by its own flag, create validates exactly when its own user type
\* redefines it, and each decoration yields the type of the class it was
\* applied to.
C13_IndependentTypes ==
    /\ (last.op = "wrapper" /\ ~IsRaise(last.result)) => wrapped = last.req
    /\ inst # NoInst =>
         inst.attrs["collection"] = BoundColl(inst.cls, inst.cls.name)
    /\ (inst # NoInst /\ last.op \in CrudOps) =>
         /\ \A i \in 1..Len(last.calls) :
              last.calls[i][1] \in {inst.attrs["collection"], <<"cursor">>}
         /\ (~inst.cls.with_crud /\ last.op \notin inst.cls.cls.ops) =>
              /\ last.result = Raise("AttributeError",
                                     "object has no attribute " \o last.op)
              /\ last.calls = <<>>
         /\ (inst.cls.with_crud /\ last.op = "create"
               /\ "create" \notin inst.cls.cls.ops) =>
              /\ Len(last.calls) = 1
              /\ SubSeq(last.calls[1], 1, 4) =
                   << inst.attrs["collection"], "insert_one", last.a1, "-" >>
         /\ (inst.cls.with_crud /\ last.op = "create" /\ last.a1 = "{}"
               /\ "create" \in inst.cls.cls.ops) =>
              /\ last.result = Raise("ValueError", "Email required")
              /\ last.calls = <<>>

C13_Witness ==
    /\ inst # NoInst
    /\ wrapped # inst.cls
    /\ wrapped.name = inst.cls.name
    /\ wrapped.with_crud
    /\ inst.cls.with_crud
    /\ "create" \in wrapped.cls.ops
    /\ "create" \notin inst.cls.cls.ops
    /\ last.op = "create"
    /\ last.a1 = "{}"
    /\ Len(last.calls) = 1

\* The last call was find_many or find_all of CRUDMixin on an instance whose
\* collection is resolved.
FindCalled ==
    /\ DefaultOpCalled
    /\ last.op \in {"find_many", "find_all"}
    /\ GetAttr(inst, "collection")[1] \in {"coll", "sub"}

\* The documents behind the cursor a find call answered with.
CursorDocs(resp) == Docs(CHOOSE n \in 0..MaxDocs : ToString(n) = resp)

\* C14: find_many and find_all make exactly one call on the collection,
\* find, with {} when the filter is left out, None or {} and with the filter
\* as passed otherwise; without a limit they return the list of all the
\* documents of the cursor, so the same list for None as for {}.
C14_DefaultFilterMatchesAll ==
    FindCalled =>
        /\ Len(last.calls) \in {1, 2}
        /\ SubSeq(last.calls[1], 1, 4) =
             << GetAttr(inst, "collection"), "find",
                IF last.a1 \in {"None", "{}"} THEN "{}" ELSE last.a1, "-" >>
        /\ \A i \in 2..Len(last.calls) : last.calls[i][1] = <<"cursor">>
        /\ (last.a2 = "None" /\ last.calls[1][5] # "raise") =>
             last.result = ListResult(CursorDocs(last.calls[1][5]))

C14_Witness ==
    /\ FindCalled
    /\ last.op = "find_all"
    /\ last.a1 = "None"
    /\ last.a2 = "None"
    /\ last.calls[1][3] = "{}"
    /\ last.result = ListResult(Docs(MaxDocs))

\* C15: for every integer limit n >= 0, find_many and find_all return the
\* first n documents of the unlimited result (all of them when there are
\* fewer than n), so never more than n.
C15_LimitCaps ==
    (FindCalled /\ last.a2 # "None" /\ last.calls[1][5] # "raise") =>
        /\ last.result = ListResult(Take(CursorDocs(last.calls[1][5]),
                                         LimitValue(last.a2)))
        /\ Len(last.result) - 2 <= LimitValue(last.a2)

\* The last call was an operation of CRUDMixin on an instance whose
\* collection is resolved.
ResolvedOpCalled ==
    /\ DefaultOpCalled
    /\ GetAttr(inst, "collection")[1] \in {"coll", "sub"}

\* C16: count and count_documents have one contract: without a collection
\* attribute the 'No collection found' error and no call; otherwise exactly
\* one call count_documents, with {} for a filter of None or {} and the
\* filter as passed otherwise, whose count is returned and whose error
\* propagates.
C16_CountIsCountDocuments ==
    (DefaultOpCalled /\ last.op \in {"count", "count_documents"}) =>
        IF GetAttr(inst, "collection") = Absent
        THEN last.result = NoCollectionError /\ last.calls = <<>>
        ELSE IF GetAttr(inst, "collection")[1] \notin {"coll", "sub"}
        THEN last.result = NoneTypeError /\ last.calls = <<>>
        ELSE /\ Len(last.calls) = 1
             /\ SubSeq(last.calls[1], 1, 4) =
                  << GetAttr(inst, "collection"), "count_documents",
                     IF last.a1 \in {"None", "{}"} THEN "{}" ELSE last.a1,
                     "-" >>
             /\ last.result = IF last.calls[1][5] = "raise"
                              THEN Raise("DriverError", "driver")
                              ELSE Ok(last.calls[1][5])

C16_Witness ==
    /\ ResolvedOpCalled
    /\ last.op = "count"
    /\ last.a1 = "x"
    /\ last.calls[1][3] = "x"
    /\ last.result = Ok(ToString(MaxDocs))

\* C17: exists makes exactly one call, count_documents with the filter as
\* passed and limit=1, and returns True when the capped count is at least 1
\* and False when it is 0.
C17_ExistsCappedCount ==
    (ResolvedOpCalled /\ last.op = "exists") =>
        /\ Len(last.calls) = 1
        /\ SubSeq(last.calls[1], 1, 4) =
             << GetAttr(inst, "collection"), "count_documents", last.a1,
                "limit=1" >>
        /\ last.calls[1][5] # "raise" =>
             /\ last.calls[1][5] \in {"0", "1"}
             /\ last.result = Ok(IF last.calls[1][5] = "1" THEN "True"
                                 ELSE "False")

C17_Witness ==
    /\ ResolvedOpCalled
    /\ last.op = "exists"
    /\ last.a1 = "None"
    /\ last.calls[1][5] = "1"
    /\ last.result = Ok("True")

\* The collection method a straight delegation calls.
StraightMethod(op) ==
    CASE op = "create" -> "insert_one"
      [] op = "create_many" -> "insert_many"
      [] OTHER -> op

\* C18: create, create_many, find_one, update_one, update_many, delete_one
\* and delete_many make exactly one call, of the corresponding collection
\* method with the arguments as passed, and return the driver's result.
C18_StraightDelegation ==
    (/\ ResolvedOpCalled
     /\ last.op \in {"create", "create_many", "find_one", "update_one",
                     "update_many", "delete_one", "delete_many"}) =>
        /\ Len(last.calls) = 1
        /\ SubSeq(last.calls[1], 1, 4) =
             << GetAttr(inst, "collection"), StraightMethod(last.op),
                last.a1, last.a2 >>
        /\ last.calls[1][5] # "raise" => last.result = Ok(last.calls[1][5])

C18_Witness ==
    /\ ResolvedOpCalled
    /\ last.op = "update_many"
    /\ last.a1 = "{}"
    /\ last.a2 = "u"
    /\ last.result = Ok("res")

\* C19: when the call an operation makes on its collection raises, the
\* operation raises that error and has made that one call only.
C19_DriverErrorPropagates ==
    (/\ ResolvedOpCalled
     /\ \E i \in 1..Len(last.calls) : last.calls[i][5] = "raise") =>
        /\ Len(last.calls) = 1
        /\ last.result = Raise("DriverError", "driver")

C19_Witness ==
    /\ ResolvedOpCalled
    /\ last.op = "find_many"
    /\ last.a2 = "1"
    /\ Len(last.calls) = 1
    /\ last.calls[1][5] = "raise"
    /\ last.result = Raise("DriverError", "driver")

\* C20: CollectionInjector(None) raises ValueError and leaves client code
\* without an injector; with a handle it returns an injector whose db is
\* that handle, which is where its decorators look collection names up.
C20_InjectorHoldsHandle ==
    /\ injector # None
    /\ last.op = "CollectionInjector" =>
         IF last.a1 = "None"
         THEN /\ last.result = Raise("ValueError",
                                     "Database instance cannot be None")
              /\ injector = NoInjector
         ELSE /\ last.result = Ok("injector")
              /\ injector = Handle(last.a1)
    /\ (last.op = "wrapper" /\ last.req.kind = "single"
          /\ last.req.cls.isClass) =>
         (IsRaise(DbLookup(injector[2], last.req.name)) =>
              IsRaise(last.result))

C20_Witness ==
    /\ last.op = "CollectionInjector"
    /\ last.a1 = OtherDb
    /\ injector = Handle(OtherDb)

\* C21: collection(name) with a name that is empty, None or not a string
\* raises ValueError at the factory call: no decorator is returned, so no
\* class is decorated, and no name is looked up on the handle.
C21_InvalidNameRejected ==
    (last.op = "collection" /\ last.a1 \in {"str:", "None", "int:42"}) =>
        /\ last.result = Raise("ValueError",
                               "Collection name must be a non-empty string")
        /\ decorator = NoDecorator
        /\ last.lookups = <<>>

C21_Witness ==
    /\ last.op = "collection"
    /\ last.a1 = "int:42"
    /\ last.result[2] = "ValueError"
    /\ wrapped.kind = "single"

\* C22: multiple_collections with an empty name map raises ValueError at
\* the factory call, whatever the flag: no decorator is returned and no name
\* is looked up on the handle.
C22_EmptyMapRejected ==
    (last.op = "multiple_collections" /\ last.a1 = "0") =>
        /\ last.result = Raise("ValueError",
                               "At least one collection must be specified")
        /\ decorator = NoDecorator
        /\ last.lookups = <<>>

C22_Witness ==
    /\ last.op = "multiple_collections"
    /\ last.a1 = "0"
    /\ last.a2 = "True"
    /\ last.result[2] = "ValueError"

\* C23: a decoration whose factory was given a flag that is not a boolean
\* raises TypeError and produces no wrapped type.
C23_NonBooleanFlagRejected ==
    (last.op = "wrapper" /\ last.a2 = "invalid") =>
        /\ IsRaise(last.result)
        /\ last.result[2] = "TypeError"
        /\ wrapped # last.req

\* The pieces of the representation the last call returned.
ReprPieces == SubSeq(last.result, 3, Len(last.result))

\* The attribute and collection names of a name map, in declaration order.
Flatten(cmap) ==
    [i \in 1..(2 * Len(cmap)) |-> cmap[(i + 1) \div 2][IF i % 2 = 1 THEN 1 ELSE 2]]

\* C24: the representation of an instance of a wrapped type has the name of
\* the original type, the marker ' with CRUD' exactly when the capability
\* set is attached, and the bound collection name for collection(name) or
\* every attribute and collection name of the name map, in declaration
\* order, for multiple_collections.
C24_ReprReflectsBinding ==
    last.op = "repr" =>
        LET t == inst.cls
            has(piece) == \E i \in 1..Len(ReprPieces) : ReprPieces[i] = piece
        IN  /\ ReprPieces[1] = t.cls.id
            /\ has(" with CRUD") <=> t.with_crud
            /\ t.kind = "single" => has(t.name)
            /\ t.kind = "multi" =>
                 SelectSeq(ReprPieces,
                           LAMBDA piece : piece \in CNames \cup AttrNames)
                     = Flatten(t.cmap)

C24_Witness ==
    /\ last.op = "repr"
    /\ inst.cls.kind = "multi"
    /\ ~inst.cls.with_crud
    /\ inst.cls.cmap[1][1] = "secondary"

\* C26: find_by_id, update_by_id and delete_by_id make exactly one call,
\* find_one, update_one and delete_one, with the filter {_id: i} built from
\* the identifier as passed and, for update_by_id, the update as passed, and
\* return the driver's result.
C26_IdOperationsBuildFilter ==
    (/\ ResolvedOpCalled
     /\ last.op \in {"find_by_id", "update_by_id", "delete_by_id"}) =>
        /\ Len(last.calls) = 1
        /\ SubSeq(last.calls[1], 1, 4) =
             << GetAttr(inst, "collection"),
                CASE last.op = "find_by_id" -> "find_one"
                  [] last.op = "update_by_id" -> "update_one"
                  [] last.op = "delete_by_id" -> "delete_one",
                "{_id: " \o last.a1 \o "}", last.a2 >>
        /\ last.calls[1][5] # "raise" => last.result = Ok(last.calls[1][5])

C26_Witness ==
    /\ ResolvedOpCalled
    /\ last.op = "update_by_id"
    /\ last.a1 = "x"
    /\ last.a2 = "u"
    /\ last.calls[1][3] = "{_id: x}"
    /\ last.result = Ok("res")

\* C28: every construction of an instance of a wrapped type, completed or
\* not, has run the body of the user type's initializer exactly once.
C28_InitializerRunsOnce ==
    last.op = "construct" => last.a2 = "1"

\* The step is a call on the instance client code holds, a call of a
\* decorator factory or of the injector's constructor, or a construction
\* that raised.
FrameworkCallStep ==
    \/ last'.op \in CrudOps \cup {"repr", "collection", "multiple_collections",
                                  "CollectionInjector"}
    \/ \E attr \in AttrNames : last'.op = "attr:" \o attr
    \/ last'.op = "construct" /\ IsRaise(last'.result)

OnWrapped == [inst EXCEPT !.cls.sub = {}]

\* The last call ended as the same operation does on self with argument a1,
\* for some outcome of the driver: same result, same calls.
SameAs(self, a1) ==
    \E drv \in OutcomesOf(MethodOf(last.op)) :
        LET r == Invoke(self, last.op, a1, last.a2, drv)
        IN  r.result = last.result /\ r.calls = last.calls

\* A completed construction of a subclass of a wrapped type leaves
\* collection holding the named collection, as Wrapped.__init__ does.
SubclassInjected ==
    (/\ last.op = "construct"
     /\ last.req.sub # {}
     /\ last.result = Ok("instance")) =>
        /\ inst.cls = last.req
        /\ inst.attrs["collection"] = Coll(DbOf(last.req.cls)[2], last.req.name)

\* An operation of the wrapped type was called on an instance of a subclass.
SubclassOpCalled ==
    /\ last.op \in CrudOps
    /\ inst.cls.sub # {}
    /\ HasOp(inst, last.op)

\* The redefinition of the subclass ran first and handed its marked argument
\* to the definition of the wrapped type.
RedefinitionFirst ==
    (SubclassOpCalled /\ last.op \in inst.cls.sub) =>
        IF last.a1 = "None"
        THEN last.result = NoItemAssignmentError /\ last.calls = <<>>
        ELSE SameAs(OnWrapped, Tag(last.a1))

\* C25: an ordinary subclass of a wrapped type inherits injection and
\* capability set: a completed construction assigns collection, an operation
\* the subclass redefines runs first and delegates to the definition of the
\* wrapped type, and every operation it does not redefine ends as on the
\* wrapped type.
C25_SubclassInherits ==
    /\ SubclassInjected
    /\ RedefinitionFirst
    /\ (SubclassOpCalled /\ last.op \notin inst.cls.sub)
         => SameAs(OnWrapped, last.a1)

\* C25, amended: as above, but of the operations the subclass does not
\* redefine count is left out when the subclass redefines count_documents
\* (count calls self.count_documents, and so the redefinition).
C25_SubclassInheritsButDispatch ==
    /\ SubclassInjected
    /\ RedefinitionFirst
    /\ (/\ SubclassOpCalled
        /\ last.op \notin inst.cls.sub
        /\ ~(last.op = "count" /\ "count_documents" \in inst.cls.sub))
         => SameAs(OnWrapped, last.a1)

C25_Witness ==
    /\ last.op = "create"
    /\ last.a1 = "x"
    /\ inst.cls.sub = {"create"}
    /\ inst.cls.with_crud
    /\ inst.cls.cls.ops = {}
    /\ inst.attrs["collection"] = Coll(InjectorDb, "a")
    /\ last.calls = << Call(Coll(InjectorDb, "a"), "insert_one", Tag("x"),
                            "-", "res") >>

\* The filter-based operation with the collection method of an
\* identifier-based operation.
FilterOpOf(op) ==
    CASE op = "find_by_id" -> "find_one"
      [] op = "update_by_id" -> "update_one"
      [] op = "delete_by_id" -> "delete_one"
      [] OTHER -> "none"

\* C29: on an instance with a bound collection whose type redefines
\* find_one, update_one or delete_one, the default find_by_id, update_by_id
\* and delete_by_id make their one call on the collection with the filter
\* {_id: id} as they built it, unmarked by the redefinition; the default
\* count on an instance whose type redefines count_documents goes through
\* the redefinition: the filter reaches the collection marked, and None
\* fails in the redefinition before any call.
C29_IdOperationsBypassRedefinitions ==
    (/\ last.op \in CrudOps
     /\ inst.cls.with_crud
     /\ GetAttr(inst, "collection")[1] \in {"coll", "sub"}) =>
        /\ FilterOpOf(last.op) \in inst.cls.sub =>
             /\ Len(last.calls) = 1
             /\ SubSeq(last.calls[1], 1, 4) =
                  << GetAttr(inst, "collection"), FilterOpOf(last.op),
                     IdFilter(last.a1), last.a2 >>
        /\ (last.op = "count" /\ "count_documents" \in inst.cls.sub) =>
             IF last.a1 = "None"
             THEN last.result = NoItemAssignmentError /\ last.calls = <<>>
             ELSE /\ Len(last.calls) = 1
                  /\ SubSeq(last.calls[1], 1, 4) =
                       << GetAttr(inst, "collection"), "count_documents",
                          Tag(last.a1), "-" >>

C29_Witness ==
    /\ last.op = "count"
    /\ last.a1 = "x"
    /\ "count_documents" \in inst.cls.sub
    /\ "find_one" \in inst.cls.sub
    /\ inst.cls.with_crud
    /\ last.calls = << Call(Coll(InjectorDb, "a"), "count_documents",
                            Tag("x"), "-", "2") >>
    /\ last.result = Ok("2")

====
